---- MODULE Spec2Model ----
(***************************************************************************)
(* A model of the Morpheus morphology engine (src/morpheus.py): the stem   *)
(* adjustment interpreter, the condition evaluator, the grammar and        *)
(* lexicon parsers and the conjugation engine.                             *)
(*                                                                         *)
(* Text is modelled as a sequence of one-character strings, so that the    *)
(* string operations of the source (endswith, lstrip, split, replace, the  *)
(* substring test) are computed and not assumed.  Two characters of the    *)
(* rule language are outside the character set of the tools and are        *)
(* written with stand-ins: ARROW for U+2192 and NULL for U+2205.           *)
(***************************************************************************)
EXTENDS Integers, Sequences, FiniteSets, TLC

VARIABLES patterns, verbs, calls, history, unit, parse

vars == <<patterns, verbs, calls, history, unit, parse>>

(***************************************************************************)
(* Characters and the string operations of Python that the source uses.    *)
(***************************************************************************)
ARROW == ">"
NULL == "@"
DASH == "-"
QUOTE == "\""

Whitespace == {" ", "\t", "\n"}

Letters == {"a", "b", "c", "d", "e", "f", "g", "h", "i", "j", "k", "l", "m",
            "n", "o", "p", "q", "r", "s", "t", "u", "v", "w", "x", "y", "z"}

Digits == {"0", "1", "2", "3", "4", "5", "6", "7", "8", "9"}

\* the class \w of the regular expressions
WordChars == Letters \cup Digits \cup {"_"}

\* text.startswith(p)
StartsWith(text, p) ==
    Len(p) <= Len(text) /\ SubSeq(text, 1, Len(p)) = p

\* text.endswith(p)
EndsWith(text, p) ==
    Len(p) <= Len(text) /\ SubSeq(text, Len(text) - Len(p) + 1, Len(text)) = p

\* text.lstrip(c)
RECURSIVE LStrip(_, _)
LStrip(text, c) ==
    IF text # <<>> /\ Head(text) = c THEN LStrip(Tail(text), c) ELSE text

\* text.rstrip() for whitespace
RECURSIVE RStripWs(_)
RStripWs(text) ==
    IF text # <<>> /\ text[Len(text)] \in Whitespace
    THEN RStripWs(SubSeq(text, 1, Len(text) - 1))
    ELSE text

\* text.lstrip() for whitespace
RECURSIVE LStripWs(_)
LStripWs(text) ==
    IF text # <<>> /\ Head(text) \in Whitespace THEN LStripWs(Tail(text)) ELSE text

\* text.strip()
Strip(text) == RStripWs(LStripWs(text))

\* p in text
Contains(text, p) ==
    \E i \in 1..(Len(text) - Len(p) + 1) : SubSeq(text, i, i + Len(p) - 1) = p

\* text.find(p) + 1 for a non-empty p that occurs in text
FindFirst(text, p) ==
    CHOOSE i \in 1..(Len(text) - Len(p) + 1) :
        /\ SubSeq(text, i, i + Len(p) - 1) = p
        /\ \A j \in 1..(i - 1) : SubSeq(text, j, j + Len(p) - 1) # p

\* text.split(sep) for a non-empty sep
RECURSIVE Split(_, _)
Split(text, sep) ==
    IF ~Contains(text, sep)
    THEN <<text>>
    ELSE LET i == FindFirst(text, sep)
         IN  <<SubSeq(text, 1, i - 1)>>
                 \o Split(SubSeq(text, i + Len(sep), Len(text)), sep)

\* new placed before every character of text
RECURSIVE Interleave(_, _)
Interleave(text, new) ==
    IF text = <<>> THEN <<>> ELSE new \o <<Head(text)>> \o Interleave(Tail(text), new)

\* text.replace(old, new): every non-overlapping occurrence, left to right;
\* an empty old matches before every character and at the end
RECURSIVE Replace(_, _, _)
Replace(text, old, new) ==
    IF old = <<>>
    THEN Interleave(text, new) \o new
    ELSE IF ~Contains(text, old)
         THEN text
         ELSE LET i == FindFirst(text, old)
              IN  SubSeq(text, 1, i - 1) \o new
                      \o Replace(SubSeq(text, i + Len(old), Len(text)), old, new)

\* text[:-n]: Python reads -0 as 0, so text[:-0] is the empty text
SliceToMinus(text, n) ==
    IF n = 0 THEN <<>> ELSE SubSeq(text, 1, Len(text) - n)

(***************************************************************************)
(* StemAdjustment                                                          *)
(***************************************************************************)
NoCondition == "None"
InFinalSyllable == "in final syllable"

IN_FINAL_SYLLABLE ==
    <<" ", "i", "n", " ", "f", "i", "n", "a", "l", " ",
      "s", "y", "l", "l", "a", "b", "l", "e">>

StemAdjustment(pattern, replacement, condition) ==
    [pattern |-> pattern, replacement |-> replacement, condition |-> condition]

\* the index of the last character of text equal to the pattern, 0 if none
LastIndexOf(text, pattern) ==
    LET hits == {i \in 1..Len(text) : <<text[i]>> = pattern}
    IN  IF hits = {} THEN 0 ELSE CHOOSE i \in hits : \A j \in hits : j <= i

\* the three branches of apply for a replacement that is not the deletion marker
apply_replace(self, text) ==
    IF StartsWith(self.pattern, <<DASH>>)
    THEN LET ending == LStrip(self.pattern, DASH)
         IN  IF EndsWith(text, ending)
             THEN SliceToMinus(text, Len(ending)) \o self.replacement
             ELSE text
    ELSE IF self.condition = InFinalSyllable
         THEN LET i == LastIndexOf(text, self.pattern)
              IN  IF i = 0
                  THEN text
                  ELSE SubSeq(text, 1, i - 1) \o self.replacement
                           \o SubSeq(text, i + 1, Len(text))
         ELSE Replace(text, self.pattern, self.replacement)

\* the deletion branch with the suffix marker left on the pattern
apply_delete_marked(self, text) ==
    IF EndsWith(text, self.pattern)
    THEN SubSeq(text, 1, Len(text) - Len(self.pattern))
    ELSE text

\* the deletion branch of apply
apply_delete(self, text) ==
    LET suffix == LStrip(self.pattern, DASH)
    IN  IF EndsWith(text, suffix)
        THEN SubSeq(text, 1, Len(text) - Len(suffix))
        ELSE text

\* StemAdjustment.apply
apply(self, text) ==
    IF self.replacement = <<NULL>>
    THEN apply_delete(self, text)
    ELSE apply_replace(self, text)

(***************************************************************************)
(* MorphologyEngine._parse_adjustments.  The inputs drawn below hold at    *)
(* most one arrow in each comma-separated part (the source unpacks the     *)
(* split into exactly two names).                                          *)
(***************************************************************************)
parse_adjustment(part) ==
    LET halves == Split(part, <<ARROW>>)
        pattern == Strip(halves[1])
        replacement == Strip(halves[2])
    IN  IF Contains(replacement, IN_FINAL_SYLLABLE)
        THEN StemAdjustment(pattern,
                            Strip(Replace(replacement, IN_FINAL_SYLLABLE, <<>>)),
                            InFinalSyllable)
        ELSE StemAdjustment(pattern, replacement, NoCondition)

RECURSIVE parse_parts(_)
parse_parts(parts) ==
    IF parts = <<>>
    THEN <<>>
    ELSE LET part == Strip(Head(parts))
         IN  (IF Contains(part, <<ARROW>>) THEN <<parse_adjustment(part)>> ELSE <<>>)
                 \o parse_parts(Tail(parts))

_parse_adjustments(text) == parse_parts(Split(text, <<",">>))

(***************************************************************************)
(* MorphologyEngine._compute_stem                                          *)
(***************************************************************************)
RECURSIVE apply_chain(_, _)
apply_chain(chain, stem) ==
    IF chain = <<>> THEN stem ELSE apply_chain(Tail(chain), apply(Head(chain), stem))

_compute_stem(infinitive, stem_name, stems) ==
    IF stem_name \notin DOMAIN stems
    THEN infinitive
    ELSE apply_chain(stems[stem_name], infinitive)

(***************************************************************************)
(* Dictionaries: a dict is a function on its set of keys, {} is the        *)
(* function with the empty domain, and d[k] = v is Put.                     *)
(***************************************************************************)
EmptyDict == <<>>

Put(d, k, v) == [x \in (DOMAIN d) \cup {k} |-> IF x = k THEN v ELSE d[x]]

(***************************************************************************)
(* The condition evaluator                                                 *)
(***************************************************************************)
INFINITIVE_LIKE ==
    <<"i", "n", "f", "i", "n", "i", "t", "i", "v", "e", " ", "l", "i", "k", "e">>

STEM_CHANGE == <<"s", "t", "e", "m", "-", "c", "h", "a", "n", "g", "e">>

AND == <<" ", "a", "n", "d", " ">>

\* the length of the longest run of word characters of text that starts at i
RECURSIVE WordRun(_, _)
WordRun(text, i) ==
    IF i <= Len(text) /\ text[i] \in WordChars THEN 1 + WordRun(text, i + 1) ELSE 0

\* re.findall(r'"(-\w+)"', text), scanning from position i
RECURSIVE FindEndings(_, _)
FindEndings(text, i) ==
    IF i > Len(text)
    THEN <<>>
    ELSE LET n == WordRun(text, i + 2)
         IN  IF /\ text[i] = QUOTE
                /\ i + 1 <= Len(text) /\ text[i + 1] = DASH
                /\ n >= 1
                /\ i + 2 + n <= Len(text) /\ text[i + 2 + n] = QUOTE
             THEN <<SubSeq(text, i + 1, i + 1 + n)>> \o FindEndings(text, i + 3 + n)
             ELSE FindEndings(text, i + 1)

\* MorphologyEngine._check_single_condition: the stem-change branch
check_stem_change(condition, verb) ==
    \E k \in 1..Len(verb.properties) : Contains(condition, verb.properties[k])

\* MorphologyEngine._check_single_condition: the infinitive branch
check_infinitive_like(condition, verb) ==
    LET endings == FindEndings(condition, 1)
    IN  \E k \in 1..Len(endings) :
            EndsWith(verb.infinitive, LStrip(endings[k], DASH))

\* a condition of a shape the evaluator does not know
check_unknown(condition, verb) == FALSE

\* MorphologyEngine._check_single_condition
_check_single_condition(condition, verb) ==
    IF Contains(condition, INFINITIVE_LIKE)
    THEN check_infinitive_like(condition, verb)
    ELSE IF Contains(condition, STEM_CHANGE)
         THEN check_stem_change(condition, verb)
         ELSE check_unknown(condition, verb)

\* the compound branch with one true conjunct taken for enough
check_any(condition, verb) ==
    LET conditions == Split(condition, AND)
    IN  \E k \in 1..Len(conditions) :
            _check_single_condition(Strip(conditions[k]), verb)

\* MorphologyEngine._pattern_matches: the compound branch
check_compound(condition, verb) ==
    LET conditions == Split(condition, AND)
    IN  \A k \in 1..Len(conditions) :
            _check_single_condition(Strip(conditions[k]), verb)

\* MorphologyEngine._pattern_matches
_pattern_matches(pattern, verb) ==
    IF pattern.condition = <<>> \/ Strip(pattern.condition) = <<>>
    THEN TRUE
    ELSE IF Contains(pattern.condition, AND)
         THEN check_compound(pattern.condition, verb)
         ELSE _check_single_condition(pattern.condition, verb)

(***************************************************************************)
(* The grammar parser.  A block is what the regular expressions of         *)
(* load_morphology capture: the text of the name and the condition, the    *)
(* form lines (each the list of its whitespace-separated words) and the    *)
(* stem lines (each the groups of the stem-definition expressions, or a    *)
(* line neither expression matches).                                       *)
(***************************************************************************)
FOR == <<" ", "f", "o", "r", " ">>

ConjugationForm(person, stem_name, ending) ==
    [person |-> person, stem_name |-> stem_name, ending |-> ending]

ConjugationPattern(name, condition, forms, stems) ==
    [name |-> name, condition |-> condition, forms |-> forms, stems |-> stems]

\* a stem line "stem_name = base_stem adjusted: (adjustments_str)"
StemLine(stem_name, base_stem, adjustments_str) ==
    [matches |-> TRUE, stem_name |-> stem_name, base_stem |-> base_stem,
     adjustments_str |-> adjustments_str]

\* a comment, or a line that is no stem definition
OtherLine ==
    [matches |-> FALSE, stem_name |-> "", base_stem |-> "", adjustments_str |-> <<>>]

\* the unresolved base taken for an empty chain
stem_line_empty_chain(stems, line) == Put(stems, line.stem_name, <<>>)

\* the stem line whose base is neither "infinitive" nor a stem of the table
stem_line_unresolved(stems, line) == stems

\* the new adjustments appended to the list of the base stem itself
stem_line_aliased(stems, line) ==
    LET chain == stems[line.base_stem] \o _parse_adjustments(line.adjustments_str)
    IN  Put(Put(stems, line.base_stem, chain), line.stem_name, chain)

\* the stem line whose base is a stem defined earlier in the pattern
stem_line_chained(stems, line) ==
    Put(stems, line.stem_name,
        stems[line.base_stem] \o _parse_adjustments(line.adjustments_str))

\* one iteration of the stem-definition loop of _parse_conjugation_pattern
parse_stem_line(stems, line) ==
    IF ~line.matches
    THEN stems
    ELSE IF line.base_stem = "infinitive"
         THEN Put(stems, line.stem_name, _parse_adjustments(line.adjustments_str))
         ELSE IF line.base_stem \in DOMAIN stems
              THEN stem_line_chained(stems, line)
              ELSE stem_line_unresolved(stems, line)

RECURSIVE parse_stem_lines(_, _)
parse_stem_lines(stems, lines) ==
    IF lines = <<>>
    THEN stems
    ELSE parse_stem_lines(parse_stem_line(stems, Head(lines)), Tail(lines))

\* the form loop of _parse_conjugation_pattern
RECURSIVE parse_form_lines(_)
parse_form_lines(lines) ==
    IF lines = <<>>
    THEN <<>>
    ELSE LET parts == Head(lines)
         IN  (IF Len(parts) >= 3
              THEN <<ConjugationForm(parts[1], parts[2], parts[3])>>
              ELSE <<>>) \o parse_form_lines(Tail(lines))

\* the name and the condition of a pattern
parse_name_and_cond(name_and_cond) ==
    LET parts == Split(Strip(name_and_cond), FOR)
    IN  [name |-> Strip(parts[1]),
         condition |-> IF Len(parts) > 1 THEN Strip(parts[2]) ELSE <<>>]

\* MorphologyEngine._parse_conjugation_pattern
_parse_conjugation_pattern(name_and_cond, forms_text, stems_text) ==
    ConjugationPattern(parse_name_and_cond(name_and_cond).name,
                       parse_name_and_cond(name_and_cond).condition,
                       parse_form_lines(forms_text),
                       parse_stem_lines(EmptyDict, stems_text))

\* the participle loop of load_morphology, for one participle block
parse_participle(block) ==
    ConjugationPattern(block.participle_type,
                       Strip(block.condition),
                       IF Len(block.form_text) = 2
                       THEN <<ConjugationForm("", block.form_text[1], block.form_text[2])>>
                       ELSE <<>>,
                       IF block.stem_text.matches /\ block.stem_text.base_stem = "infinitive"
                       THEN Put(EmptyDict, block.stem_text.stem_name,
                                _parse_adjustments(block.stem_text.adjustments_str))
                       ELSE EmptyDict)

RECURSIVE parse_conjugations(_)
parse_conjugations(blocks) ==
    IF blocks = <<>>
    THEN <<>>
    ELSE <<_parse_conjugation_pattern(Head(blocks).name_and_cond,
                                      Head(blocks).forms_text,
                                      Head(blocks).stems_text)>>
             \o parse_conjugations(Tail(blocks))

RECURSIVE parse_participles(_)
parse_participles(blocks) ==
    IF blocks = <<>>
    THEN <<>>
    ELSE <<parse_participle(Head(blocks))>> \o parse_participles(Tail(blocks))

\* MorphologyEngine.load_morphology: the patterns after loading content
load_morphology(loaded, content) ==
    loaded \o parse_conjugations(content.conjugations)
           \o parse_participles(content.participles)

(***************************************************************************)
(* The lexicon parser.  A statement is what the expression of load_lexicon *)
(* captures: the infinitive and the text between the parentheses, empty    *)
(* when the statement has no parenthesized list.                           *)
(***************************************************************************)
Verb(infinitive, properties) ==
    [infinitive |-> infinitive, properties |-> properties]

Statement(infinitive, properties) ==
    [infinitive |-> infinitive, properties |-> properties]

RECURSIVE StripAll(_)
StripAll(parts) ==
    IF parts = <<>> THEN <<>> ELSE <<Strip(Head(parts))>> \o StripAll(Tail(parts))

\* the property list of one statement
parse_properties(properties) ==
    IF properties # <<>> THEN StripAll(Split(properties, <<",">>)) ELSE <<>>

\* the properties of a statement added to those the verb already has
merge_statement(table, statement) ==
    Put(table, statement.infinitive,
        Verb(statement.infinitive,
             (IF statement.infinitive \in DOMAIN table
              THEN table[statement.infinitive].properties
              ELSE <<>>) \o parse_properties(statement.properties)))

\* one iteration of the loop of load_lexicon
load_statement(table, statement) ==
    Put(table, statement.infinitive,
        Verb(statement.infinitive, parse_properties(statement.properties)))

\* MorphologyEngine.load_lexicon: the verb table after loading verb_lines
RECURSIVE load_lexicon(_, _)
load_lexicon(table, verb_lines) ==
    IF verb_lines = <<>>
    THEN table
    ELSE load_lexicon(load_statement(table, Head(verb_lines)), Tail(verb_lines))

(***************************************************************************)
(* The conjugation engine                                                  *)
(***************************************************************************)
\* the inner loop of conjugate: the forms of one pattern
RECURSIVE conjugate_forms(_, _, _, _)
conjugate_forms(forms, declared, infinitive, stems) ==
    IF declared = <<>>
    THEN forms
    ELSE LET form == Head(declared)
             stem == _compute_stem(infinitive, form.stem_name, stems)
             conjugated == stem \o LStrip(form.ending, DASH)
         IN  conjugate_forms(
                 Put(forms, IF form.person # "" THEN form.person ELSE "form", conjugated),
                 Tail(declared), infinitive, stems)

\* the entry of a matching pattern merged into the entry already stored
merge_entry(result, pattern, infinitive) ==
    Put(result, pattern.name,
        conjugate_forms(IF pattern.name \in DOMAIN result
                        THEN result[pattern.name]
                        ELSE EmptyDict,
                        pattern.forms, infinitive, pattern.stems))

\* the entry of a matching pattern, stored under its name
store_entry(result, pattern, infinitive) ==
    Put(result, pattern.name,
        conjugate_forms(EmptyDict, pattern.forms, infinitive, pattern.stems))

\* one iteration of the outer loop of conjugate
conjugate_pattern(result, pattern, verb, infinitive) ==
    IF ~_pattern_matches(pattern, verb)
    THEN result
    ELSE store_entry(result, pattern, infinitive)

(***************************************************************************)
(* A call of conjugate: where it stands (idle, in the loop over the        *)
(* patterns, returned, or raised), its argument, the index of the next     *)
(* pattern, its local result and the message of the error it raised.       *)
(***************************************************************************)
VERB_QUOTE == <<"V", "e", "r", "b", " ", "'">>

NOT_FOUND ==
    <<"'", " ", "n", "o", "t", " ", "f", "o", "u", "n", "d", " ",
      "i", "n", " ", "l", "e", "x", "i", "c", "o", "n">>

IdleCall ==
    [pc |-> "idle", infinitive |-> <<>>, i |-> 0, result |-> EmptyDict, error |-> <<>>]

\* an empty table returned for a verb that is not in the lexicon
return_empty(infinitive) ==
    [pc |-> "returned", infinitive |-> infinitive, i |-> 0, result |-> EmptyDict,
     error |-> <<>>]

\* raise ValueError(f"Verb '{infinitive}' not found in lexicon")
raise_not_found(infinitive) ==
    [pc |-> "raised", infinitive |-> infinitive, i |-> 0, result |-> EmptyDict,
     error |-> VERB_QUOTE \o infinitive \o NOT_FOUND]

\* a result kept between the calls
shared_result == calls["main"].result

\* result = {}
fresh_result == EmptyDict

\* the head of conjugate: the lookup of the verb and the empty result
conjugate_begin(table, infinitive) ==
    IF infinitive \notin DOMAIN table
    THEN raise_not_found(infinitive)
    ELSE [pc |-> "loop", infinitive |-> infinitive, i |-> 1,
          result |-> fresh_result, error |-> <<>>]

\* one iteration of the loop over self.patterns
conjugate_iteration(call, loaded, table) ==
    [call EXCEPT !.i = call.i + 1,
                 !.result = conjugate_pattern(call.result, loaded[call.i],
                                              table[call.infinitive], call.infinitive)]

\* return result
conjugate_return(call) == [call EXCEPT !.pc = "returned"]

RECURSIVE conjugate_loop(_, _, _)
conjugate_loop(call, loaded, table) ==
    IF call.i > Len(loaded)
    THEN conjugate_return(call)
    ELSE conjugate_loop(conjugate_iteration(call, loaded, table), loaded, table)

\* MorphologyEngine.conjugate, run from its first line to its last
conjugate(loaded, table, infinitive) ==
    LET call == conjugate_begin(table, infinitive)
    IN  IF call.pc = "raised" THEN call ELSE conjugate_loop(call, loaded, table)

(***************************************************************************)
(* The texts of the grammars, the lexicons and the calls                   *)
(***************************************************************************)
hablar == <<"h", "a", "b", "l", "a", "r">>
comer == <<"c", "o", "m", "e", "r">>
vivir == <<"v", "i", "v", "i", "r">>
pensar == <<"p", "e", "n", "s", "a", "r">>
pedir == <<"p", "e", "d", "i", "r">>
volar == <<"v", "o", "l", "a", "r">>

ar == <<"a", "r">>
er == <<"e", "r">>
ir == <<"i", "r">>

e_ie == <<"e", ARROW, "i", "e">>
e_i == <<"e", ARROW, "i">>

PRESENT_INDICATIVE ==
    <<"p", "r", "e", "s", "e", "n", "t", " ",
      "i", "n", "d", "i", "c", "a", "t", "i", "v", "e">>

PAST_PARTICIPLE ==
    <<"p", "a", "s", "t", DASH, "p", "a", "r", "t", "i", "c", "i", "p", "l", "e">>

FUTURE == <<"f", "u", "t", "u", "r", "e">>

PRESENT_SUBJUNCTIVE ==
    <<"p", "r", "e", "s", "e", "n", "t", " ",
      "s", "u", "b", "j", "u", "n", "c", "t", "i", "v", "e">>

IRREGULAR == <<"i", "r", "r", "e", "g", "u", "l", "a", "r">>

\* infinitive like "-S"
InfinitiveLike(S) == INFINITIVE_LIKE \o <<" ", QUOTE, DASH>> \o S \o <<QUOTE>>

\* stem-change C, the tag of the stem-change class C
StemChangeTag(C) == STEM_CHANGE \o <<" ">> \o C

\* -S -> NULL
Deletion(S) == <<DASH>> \o S \o <<" ", ARROW, " ", NULL>>

\* e -> ie in final syllable
RAISE_E_IE == <<"e", " ", ARROW, " ", "i", "e">> \o IN_FINAL_SYLLABLE

Block(name_and_cond, forms_text, stems_text) ==
    [name_and_cond |-> name_and_cond, forms_text |-> forms_text,
     stems_text |-> stems_text]

\* define conjugation present indicative for infinitive like "-S" as ...
RegularBlock(S, last) ==
    Block(PRESENT_INDICATIVE \o FOR \o InfinitiveLike(S),
          <<<<"1sg", "stem", <<DASH, "o">>>>, <<"3pl", "stem", <<DASH>> \o last>>>>,
          <<StemLine("stem", "infinitive", Deletion(S))>>)

\* the present indicative of the verbs in -ar that raise e to ie
StemChangingBlock ==
    Block(PRESENT_INDICATIVE \o FOR \o InfinitiveLike(ar) \o AND \o StemChangeTag(e_ie),
          <<<<"1sg", "changed-stem", <<DASH, "o">>>>,
            <<"1pl", "stem", <<DASH, "a", "m", "o", "s">>>>>>,
          <<StemLine("stem", "infinitive", Deletion(ar)),
            StemLine("changed-stem", "stem", RAISE_E_IE)>>)

\* a tense without a condition, built on the bare infinitive
FutureBlock ==
    Block(FUTURE, <<<<"1sg", "infinitive", <<DASH, "e">>>>>>, <<OtherLine>>)

\* a pattern whose condition has a shape the evaluator does not know
IrregularBlock ==
    Block(PRESENT_INDICATIVE \o FOR \o IRREGULAR,
          <<<<"1sg", "stem", <<DASH, "x">>>>>>,
          <<StemLine("stem", "infinitive", Deletion(ar))>>)

\* a pattern with a form line of two words, which the parser drops
SubjunctiveBlock ==
    Block(PRESENT_SUBJUNCTIVE \o FOR \o InfinitiveLike(ar),
          <<<<"2sg", "stem", <<DASH, "e", "s">>>>, <<"2pl", "stem">>>>,
          <<StemLine("stem", "infinitive", Deletion(ar))>>)

PastParticipleBlock ==
    [participle_type |-> PAST_PARTICIPLE, condition |-> InfinitiveLike(ar),
     form_text |-> <<"stem", <<DASH, "a", "d", "o">>>>,
     stem_text |-> StemLine("stem", "infinitive", Deletion(ar))]

Regular ==
    [conjugations |-> <<RegularBlock(ar, <<"a", "n">>), RegularBlock(er, <<"e", "n">>),
                        RegularBlock(ir, <<"e", "n">>)>>,
     participles |-> <<>>]

\* the participle block stands first in this source: the expression for the
\* participles captures from the first "define" of the text
StemChanging ==
    [conjugations |-> <<StemChangingBlock>>, participles |-> <<PastParticipleBlock>>]

Odd ==
    [conjugations |-> <<FutureBlock, IrregularBlock, SubjunctiveBlock>>,
     participles |-> <<>>]

GrammarSources == {Regular, StemChanging, Odd}

Spanish ==
    <<Statement(hablar, <<>>), Statement(comer, <<>>), Statement(vivir, <<>>),
      Statement(pensar, StemChangeTag(e_ie))>>

More ==
    <<Statement(pedir, <<" ">> \o StemChangeTag(e_i)), Statement(pensar, <<>>)>>

LexiconSources == {Spanish, More}

CallArgs == {hablar, comer, vivir, pensar, volar}

Callers == {"main", "worker"}

MaxPatterns == 5

(***************************************************************************)
(* The engine: the loads of the caller, then its calls of conjugate.       *)
(***************************************************************************)
NoUnit == [pc |-> "none"]

InitEngine ==
    /\ patterns = <<>>
    /\ verbs = EmptyDict
    /\ calls = [t \in Callers |-> IdleCall]

Init ==
    /\ InitEngine
    /\ history = <<>>
    /\ unit = NoUnit
    /\ parse = NoUnit

\* the caller loads before it conjugates (main)
Loading == \A t \in Callers : calls[t].pc = "idle"

LoadMorphology(content) ==
    /\ Loading
    /\ Len(load_morphology(patterns, content)) <= MaxPatterns
    /\ patterns' = load_morphology(patterns, content)
    /\ UNCHANGED <<verbs, calls, history, unit, parse>>

LoadLexicon(content) ==
    /\ Loading
    /\ verbs' = load_lexicon(verbs, content)
    /\ UNCHANGED <<patterns, calls, history, unit, parse>>

ConjugateBegin(t, infinitive) ==
    /\ calls[t].pc \in {"idle", "returned", "raised"}
    /\ calls' = [calls EXCEPT ![t] = conjugate_begin(verbs, infinitive)]
    /\ UNCHANGED <<patterns, verbs, history, unit, parse>>

ConjugateIteration(t) ==
    /\ calls[t].pc = "loop"
    /\ calls[t].i <= Len(patterns)
    /\ calls' = [calls EXCEPT ![t] = conjugate_iteration(calls[t], patterns, verbs)]
    /\ UNCHANGED <<patterns, verbs, history, unit, parse>>

ConjugateReturn(t) ==
    /\ calls[t].pc = "loop"
    /\ calls[t].i > Len(patterns)
    /\ calls' = [calls EXCEPT ![t] = conjugate_return(calls[t])]
    /\ UNCHANGED <<patterns, verbs, history, unit, parse>>

Next ==
    \/ \E content \in GrammarSources : LoadMorphology(content)
    \/ \E content \in LexiconSources : LoadLexicon(content)
    \/ \E t \in Callers, infinitive \in CallArgs : ConjugateBegin(t, infinitive)
    \/ \E t \in Callers : ConjugateIteration(t)
    \/ \E t \in Callers : ConjugateReturn(t)

Spec == Init /\ [][Next]_vars

(***************************************************************************)
(* The adjustment interpreter alone: an adjustment list is parsed and      *)
(* applied, left to right, to a text.                                      *)
(***************************************************************************)
TextAlphabet == {"a", "r", "e"}

MaxTextLen == 3

pens == <<"p", "e", "n", "s">>

Texts ==
    (UNION {[1..n -> TextAlphabet] : n \in 0..MaxTextLen}) \cup {hablar, comer, pens}

AdjustmentTexts ==
    {Deletion(ar),
     <<DASH, "a", "r", " ", ARROW, " ", DASH, "e">>,
     <<DASH, "a", "r", ARROW, "e">>,
     <<DASH, "e", "r", " ", ARROW, " ", "i", "e">>,
     <<DASH, DASH, "a", "r", " ", ARROW, " ", "e">>,
     RAISE_E_IE,
     <<"a", " ", ARROW, " ", "o">>,
     <<"a", "r">>}

InitApply ==
    /\ InitEngine
    /\ history = <<>>
    /\ parse = NoUnit
    /\ unit \in {[pc |-> "text", source |-> a, text |-> t,
                  adjustments |-> <<>>, out |-> <<>>] :
                     a \in AdjustmentTexts, t \in Texts}

ApplyParse ==
    /\ unit.pc = "text"
    /\ unit' = [unit EXCEPT !.pc = "parsed",
                            !.adjustments = _parse_adjustments(unit.source)]
    /\ UNCHANGED <<patterns, verbs, calls, history, parse>>

ApplyAdjustments ==
    /\ unit.pc = "parsed"
    /\ unit' = [unit EXCEPT !.pc = "applied",
                            !.out = apply_chain(unit.adjustments, unit.text)]
    /\ UNCHANGED <<patterns, verbs, calls, history, parse>>

NextApply == ApplyParse \/ ApplyAdjustments

SpecApply == InitApply /\ [][NextApply]_vars

(***************************************************************************)
(* The condition evaluator: a pattern is parsed from a condition written   *)
(* as conjuncts joined by the separator, a verb is loaded from a lexicon   *)
(* statement, the condition is evaluated and the verb is conjugated with   *)
(* the pattern standing between two others.                                *)
(***************************************************************************)
MaxConjuncts == 2

INFINITIVE_LIKE_ER_IR ==
    INFINITIVE_LIKE \o <<" ", QUOTE, DASH>> \o er \o <<QUOTE, ",", " ", QUOTE, DASH>>
        \o ir \o <<QUOTE>>

UnknownConjuncts == {IRREGULAR}

StemChangeClasses == {e_ie, e_i}

Conjuncts ==
    {InfinitiveLike(ar), INFINITIVE_LIKE_ER_IR} \cup UnknownConjuncts
        \cup {StemChangeTag(C) : C \in StemChangeClasses}

ConjunctLists == UNION {[1..n -> Conjuncts] : n \in 0..MaxConjuncts}

\* the conjuncts written one after the other with the separator between them
RECURSIVE JoinWith(_, _)
JoinWith(parts, sep) ==
    IF parts = <<>>
    THEN <<>>
    ELSE IF Len(parts) = 1
         THEN Head(parts)
         ELSE Head(parts) \o sep \o JoinWith(Tail(parts), sep)

\* define conjugation present indicative [for <condition>] as ...
ProbeBlock(conjuncts) ==
    Block(IF conjuncts = <<>>
          THEN PRESENT_INDICATIVE
          ELSE PRESENT_INDICATIVE \o FOR \o JoinWith(conjuncts, AND),
          <<<<"1sg", "stem", <<DASH, "o">>>>>>,
          <<StemLine("stem", "infinitive", Deletion(ar))>>)

ProbeGrammar(conjuncts) ==
    [conjugations |-> <<FutureBlock, ProbeBlock(conjuncts), SubjunctiveBlock>>,
     participles |-> <<>>]

ProbeStatements ==
    {Statement(x, p) : x \in {hablar, comer, pedir},
                       p \in {<<>>, StemChangeTag(e_ie), StemChangeTag(e_i)}}

InitCond ==
    /\ InitEngine
    /\ history = <<>>
    /\ parse = NoUnit
    /\ unit \in {[pc |-> "source", conjuncts |-> c, statement |-> s,
                  loaded |-> <<>>, table |-> EmptyDict, matches |-> FALSE,
                  call |-> IdleCall] :
                     c \in ConjunctLists, s \in ProbeStatements}

CondLoad ==
    /\ unit.pc = "source"
    /\ unit' = [unit EXCEPT !.pc = "loaded",
                            !.loaded = load_morphology(<<>>, ProbeGrammar(unit.conjuncts)),
                            !.table = load_lexicon(EmptyDict, <<unit.statement>>)]
    /\ UNCHANGED <<patterns, verbs, calls, history, parse>>

CondEvaluate ==
    /\ unit.pc = "loaded"
    /\ unit' = [unit EXCEPT !.pc = "evaluated",
                            !.matches = _pattern_matches(unit.loaded[2],
                                            unit.table[unit.statement.infinitive])]
    /\ UNCHANGED <<patterns, verbs, calls, history, parse>>

CondConjugate ==
    /\ unit.pc = "evaluated"
    /\ unit' = [unit EXCEPT !.pc = "conjugated",
                            !.call = conjugate(unit.loaded, unit.table,
                                               unit.statement.infinitive)]
    /\ UNCHANGED <<patterns, verbs, calls, history, parse>>

NextCond == CondLoad \/ CondEvaluate \/ CondConjugate

SpecCond == InitCond /\ [][NextCond]_vars

(***************************************************************************)
(* The lexicon parser: statements are written from an infinitive and a     *)
(* list of properties and loaded, one load_lexicon call after the other;   *)
(* history keeps what was written, load by load.                           *)
(***************************************************************************)
MaxStatements == 3

Written(infinitive, listed) == [infinitive |-> infinitive, listed |-> listed]

\* verb <infinitive> [(<property>, <property>, ...)];
StatementOf(written) ==
    Statement(written.infinitive, JoinWith(written.listed, <<",", " ">>))

RECURSIVE StatementsOf(_)
StatementsOf(content) ==
    IF content = <<>>
    THEN <<>>
    ELSE <<StatementOf(Head(content))>> \o StatementsOf(Tail(content))

PropertyLists == {<<>>, <<StemChangeTag(e_ie)>>, <<StemChangeTag(e_i), IRREGULAR>>}

WrittenStatements ==
    {Written(x, l) : x \in {hablar, pensar}, l \in PropertyLists}

WrittenLexicons == UNION {[1..n -> WrittenStatements] : n \in 1..2}

RECURSIVE Flatten(_)
Flatten(seqs) == IF seqs = <<>> THEN <<>> ELSE Head(seqs) \o Flatten(Tail(seqs))

InitLex ==
    /\ InitEngine
    /\ history = <<>>
    /\ unit = NoUnit
    /\ parse = NoUnit

LexLoad(content) ==
    /\ Len(Flatten(history)) + Len(content) <= MaxStatements
    /\ verbs' = load_lexicon(verbs, StatementsOf(content))
    /\ history' = Append(history, content)
    /\ UNCHANGED <<patterns, calls, unit, parse>>

NextLex == \E content \in WrittenLexicons : LexLoad(content)

SpecLex == InitLex /\ [][NextLex]_vars

(***************************************************************************)
(* The stem-definition loop of the grammar parser, line by line, then the  *)
(* conjugation of a verb with the pattern parsed; prev is the stem table   *)
(* before the line processed last.                                         *)
(***************************************************************************)
MaxStemLines == 3

A_TO_O == <<"a", " ", ARROW, " ", "o">>

StemLinePool ==
    {StemLine("stem", "infinitive", Deletion(ar)),
     StemLine("changed-stem", "stem", RAISE_E_IE),
     StemLine("changed-stem", "base", RAISE_E_IE),
     StemLine("stem", "changed-stem", A_TO_O),
     OtherLine}

StemTexts == UNION {[1..n -> StemLinePool] : n \in 0..MaxStemLines}

ParsedBlock(stems_text) ==
    Block(StemChangingBlock.name_and_cond, StemChangingBlock.forms_text, stems_text)

InitParse ==
    /\ InitEngine
    /\ history = <<>>
    /\ unit = NoUnit
    /\ parse \in {[pc |-> "stems", block |-> ParsedBlock(lines), pos |-> 1,
                   stems |-> EmptyDict, prev |-> EmptyDict,
                   loaded |-> <<>>, call |-> IdleCall] : lines \in StemTexts}

ParseStemLine ==
    /\ parse.pc = "stems"
    /\ parse.pos <= Len(parse.block.stems_text)
    /\ parse' = [parse EXCEPT !.pos = parse.pos + 1,
                              !.prev = parse.stems,
                              !.stems = parse_stem_line(parse.stems,
                                            parse.block.stems_text[parse.pos])]
    /\ UNCHANGED <<patterns, verbs, calls, history, unit>>

ParseReturn ==
    /\ parse.pc = "stems"
    /\ parse.pos > Len(parse.block.stems_text)
    /\ parse' = [parse EXCEPT !.pc = "parsed",
                              !.loaded = load_morphology(<<>>,
                                  [conjugations |-> <<parse.block>>, participles |-> <<>>])]
    /\ UNCHANGED <<patterns, verbs, calls, history, unit>>

ParseConjugate(infinitive) ==
    /\ parse.pc = "parsed"
    /\ parse' = [parse EXCEPT !.pc = "conjugated",
                              !.call = conjugate(parse.loaded,
                                                 load_lexicon(EmptyDict, Spanish),
                                                 infinitive)]
    /\ UNCHANGED <<patterns, verbs, calls, history, unit>>

NextParse ==
    \/ ParseStemLine
    \/ ParseReturn
    \/ \E infinitive \in {pensar, hablar} : ParseConjugate(infinitive)

SpecParse == InitParse /\ [][NextParse]_vars

(***************************************************************************)
(* Claims about the engine (Spec)                                          *)
(***************************************************************************)
Suffixes == {ar, er, ir}

\* the chain of "stem = infinitive adjusted: (-S -> NULL)"
DeletionChain(S) == <<StemAdjustment(<<DASH>> \o S, <<NULL>>, NoCondition)>>

\* the key under which a form is stored
KeyOf(form) == IF form.person # "" THEN form.person ELSE "form"

\* the patterns whose condition holds for the verb x of the lexicon
Hits(x) == {k \in 1..Len(patterns) : _pattern_matches(patterns[k], verbs[x])}

\* pattern k is the last pattern of its name whose condition holds for x
LastOfName(k, x) ==
    \A j \in Hits(x) : patterns[j].name = patterns[k].name => j <= k

\* form n is the last form of pattern k declared for its person
LastOfPerson(k, n) ==
    \A m \in 1..Len(patterns[k].forms) :
        KeyOf(patterns[k].forms[m]) = KeyOf(patterns[k].forms[n]) => m <= n

\* form n of pattern k is built on a stem defined as the infinitive less -S
RegularForm(k, n, S) ==
    /\ patterns[k].condition = InfinitiveLike(S)
    /\ patterns[k].forms[n].stem_name \in DOMAIN patterns[k].stems
    /\ patterns[k].stems[patterns[k].forms[n].stem_name] = DeletionChain(S)

\* the table holds, for form n of pattern k, the infinitive less S and the ending
RegularEntry(result, x, k, n, S) ==
    /\ patterns[k].name \in DOMAIN result
    /\ KeyOf(patterns[k].forms[n]) \in DOMAIN result[patterns[k].name]
    /\ result[patterns[k].name][KeyOf(patterns[k].forms[n])]
           = SubSeq(x, 1, Len(x) - Len(S)) \o LStrip(patterns[k].forms[n].ending, DASH)

\* C1 as stated: for every verb of the lexicon that ends in S and every pattern
\* conditioned on infinitive like "-S" with its stem the infinitive less -S, the
\* table returned holds under the pattern's name, for each form, the infinitive
\* less S followed by the ending less its marker.
C1_Original ==
    \A t \in Callers :
        calls[t].pc = "returned" =>
            \A S \in Suffixes, k \in 1..Len(patterns) :
                EndsWith(calls[t].infinitive, S) =>
                    \A n \in 1..Len(patterns[k].forms) :
                        RegularForm(k, n, S) =>
                            RegularEntry(calls[t].result, calls[t].infinitive, k, n, S)

\* the first person singular of the regular verbs named in the claim
FirstSingular(x) ==
    IF x = hablar THEN <<"h", "a", "b", "l", "o">>
    ELSE IF x = comer THEN <<"c", "o", "m", "o">>
    ELSE IF x = vivir THEN <<"v", "i", "v", "o">>
    ELSE <<"p", "e", "n", "s", "o">>

\* C1 amended: the same, for a pattern that is the last of its name whose
\* condition holds for the verb and a form that is the last declared for its
\* person; so hablar gives hablo and hablan, comer como, vivir vivo.
C1_Regular ==
    \A t \in Callers :
        calls[t].pc = "returned" =>
            \A S \in Suffixes, k \in 1..Len(patterns) :
                (EndsWith(calls[t].infinitive, S) /\ LastOfName(k, calls[t].infinitive)) =>
                    \A n \in 1..Len(patterns[k].forms) :
                        (RegularForm(k, n, S) /\ LastOfPerson(k, n)) =>
                            /\ RegularEntry(calls[t].result, calls[t].infinitive, k, n, S)
                            /\ patterns[k].forms[n].person = "1sg" =>
                                   calls[t].result[patterns[k].name]["1sg"]
                                       = FirstSingular(calls[t].infinitive)
                            /\ (patterns[k].forms[n].person = "3pl"
                                   /\ calls[t].infinitive = hablar) =>
                                   calls[t].result[patterns[k].name]["3pl"]
                                       = <<"h", "a", "b", "l", "a", "n">>

\* hablar was conjugated with the regular pattern for -ar as its last match,
\* comer with the pattern for -er
C1_Witness ==
    /\ calls["main"].pc = "returned" /\ calls["main"].infinitive = hablar
    /\ \E k \in 1..Len(patterns) :
           /\ LastOfName(k, hablar) /\ RegularForm(k, 1, ar)
           /\ patterns[k].forms[1].person = "1sg"
           /\ calls["main"].result[patterns[k].name]["1sg"] = <<"h", "a", "b", "l", "o">>
    /\ calls["worker"].pc = "returned" /\ calls["worker"].infinitive = comer
    /\ \E k \in 1..Len(patterns) :
           /\ LastOfName(k, comer) /\ RegularForm(k, 1, er)
           /\ patterns[k].forms[1].person = "1sg"
           /\ calls["worker"].result[patterns[k].name]["1sg"] = <<"c", "o", "m", "o">>

\* a call in the loop or returned is a call for a verb of the lexicon; a call
\* that raised is a call for another infinitive, has the message of the error
\* with that infinitive in it, and has no entry in its result
RaisedForAbsentVerb ==
    \A t \in Callers :
        /\ calls[t].pc \in {"loop", "returned"} => calls[t].infinitive \in DOMAIN verbs
        /\ calls[t].pc = "raised" =>
               /\ calls[t].infinitive \notin DOMAIN verbs
               /\ calls[t].error = VERB_QUOTE \o calls[t].infinitive \o NOT_FOUND
               /\ Contains(calls[t].error, calls[t].infinitive)
               /\ calls[t].result = EmptyDict

\* C3: conjugate of an infinitive absent from the lexicon raises the error that
\* carries the infinitive, whatever the grammar loaded, and returns no table;
\* the step that raises changes neither the patterns nor the verb table.
C3_VerbNotFound ==
    /\ []RaisedForAbsentVerb
    /\ [][(\E t \in Callers : calls'[t].pc = "raised" /\ calls'[t] # calls[t])
              => (patterns' = patterns /\ verbs' = verbs)]_vars

\* volar is not in the loaded lexicon and the call for it raised
C3_Witness ==
    /\ calls["main"].pc = "raised" /\ calls["main"].infinitive = volar
    /\ hablar \in DOMAIN verbs /\ patterns # <<>>

\* the forms a pattern yields for an infinitive
FormsOf(k, x) == conjugate_forms(EmptyDict, patterns[k].forms, x, patterns[k].stems)

\* C4: the keys of the table are the names of the patterns whose condition
\* holds, and the entry of a name is the forms of the last such pattern of
\* that name, whole.
C4_LastPatternWins ==
    \A t \in Callers :
        calls[t].pc = "returned" =>
            LET x == calls[t].infinitive
            IN  /\ DOMAIN calls[t].result = {patterns[k].name : k \in Hits(x)}
                /\ \A k \in Hits(x) :
                       LastOfName(k, x) => calls[t].result[patterns[k].name] = FormsOf(k, x)

\* two patterns of one name match the verb and yield different persons, and a
\* third of that name does not match
C4_Witness ==
    \E t \in Callers :
        /\ calls[t].pc = "returned"
        /\ \E j \in Hits(calls[t].infinitive), k \in Hits(calls[t].infinitive) :
               /\ j < k /\ patterns[j].name = patterns[k].name
               /\ DOMAIN FormsOf(j, calls[t].infinitive)
                      # DOMAIN FormsOf(k, calls[t].infinitive)
        /\ \E m \in 1..Len(patterns) :
               /\ m \notin Hits(calls[t].infinitive)
               /\ patterns[m].name \in DOMAIN calls[t].result

\* a call that ended, whatever the other caller did meanwhile, ended as a call
\* run alone ends and as every other call for the same infinitive ended
EndsAsRunAlone ==
    \A t \in Callers :
        calls[t].pc \in {"returned", "raised"} =>
            /\ calls[t] = conjugate(patterns, verbs, calls[t].infinitive)
            /\ \A u \in Callers :
                   (calls[u].pc \in {"returned", "raised"}
                       /\ calls[u].infinitive = calls[t].infinitive)
                   => calls[u] = calls[t]

\* C5: no step of a call, returning or failing, alone or interleaved with the
\* steps of another call, changes the patterns or the verb table, and calls
\* for the same infinitive return identical tables, those of a call run alone.
C5_ReadOnlyRepeatable ==
    /\ []EndsAsRunAlone
    /\ [][calls' # calls => (patterns' = patterns /\ verbs' = verbs)]_vars

\* both callers ended a call for pensar with a table of two tenses or more
C5_Witness ==
    /\ calls["main"].pc = "returned" /\ calls["worker"].pc = "returned"
    /\ calls["main"].infinitive = pensar /\ calls["worker"].infinitive = pensar
    /\ Cardinality(DOMAIN calls["main"].result) >= 2

(***************************************************************************)
(* Claims about the adjustment interpreter (SpecApply)                     *)
(***************************************************************************)
hable == <<"h", "a", "b", "l", "e">>

\* C6: a suffix-marked pattern with a replacement that is not the deletion
\* marker, applied to a text that ends with the pattern's suffix, gives the
\* text with that suffix replaced by the replacement, and the text itself
\* otherwise; "-ar" to "-e" turns hablar into hable.
C6_SuffixReplace ==
    (/\ unit.pc = "applied"
     /\ Len(unit.adjustments) = 1
     /\ StartsWith(unit.adjustments[1].pattern, <<DASH>>)
     /\ unit.adjustments[1].replacement # <<NULL>>)
    => LET suffix == LStrip(unit.adjustments[1].pattern, DASH)
           replacement == LStrip(unit.adjustments[1].replacement, DASH)
       IN  /\ unit.out = IF EndsWith(unit.text, suffix)
                         THEN SubSeq(unit.text, 1, Len(unit.text) - Len(suffix))
                                  \o replacement
                         ELSE unit.text
           /\ (/\ unit.text = hablar
               /\ unit.adjustments[1].pattern = <<DASH, "a", "r">>
               /\ unit.adjustments[1].replacement = <<DASH, "e">>)
              => unit.out = hable

(***************************************************************************)
(* Claims about the condition evaluator (SpecCond)                         *)
(***************************************************************************)
ProbedVerb == unit.table[unit.statement.infinitive]

\* C7: a condition of several conjuncts holds exactly when each conjunct holds
\* as a single condition; a conjunct of an unknown shape is false, the pattern
\* is skipped, and conjugate returns the entries of the patterns around it.
C7_Conjunction ==
    unit.pc \in {"evaluated", "conjugated"} =>
        /\ Len(unit.conjuncts) >= 2 =>
               (unit.matches <=>
                   \A k \in 1..Len(unit.conjuncts) :
                       _check_single_condition(unit.conjuncts[k], ProbedVerb))
        /\ \A k \in 1..Len(unit.conjuncts) :
               unit.conjuncts[k] \in UnknownConjuncts =>
                   /\ ~_check_single_condition(unit.conjuncts[k], ProbedVerb)
                   /\ ~unit.matches
        /\ unit.pc = "conjugated" =>
               /\ unit.call.pc = "returned"
               /\ unit.matches <=> PRESENT_INDICATIVE \in DOMAIN unit.call.result
               /\ FUTURE \in DOMAIN unit.call.result
               /\ unit.call.result[FUTURE]["1sg"] = unit.statement.infinitive \o <<"e">>
               /\ EndsWith(unit.statement.infinitive, ar)
                      <=> PRESENT_SUBJUNCTIVE \in DOMAIN unit.call.result

\* a condition of a true conjunct and an unknown one: the pattern was skipped
\* and the patterns before and after it gave their entries
C7_Witness ==
    /\ unit.pc = "conjugated"
    /\ Len(unit.conjuncts) = 2
    /\ _check_single_condition(unit.conjuncts[1], ProbedVerb)
    /\ unit.conjuncts[2] \in UnknownConjuncts
    /\ ~unit.matches
    /\ DOMAIN unit.call.result = {FUTURE, PRESENT_SUBJUNCTIVE}

\* C10: a single condition that names a stem-change class holds only for a
\* verb that has the tag of that class among its properties.
C10_OwnClassOnly ==
    (/\ unit.pc \in {"evaluated", "conjugated"}
     /\ Len(unit.conjuncts) = 1
     /\ \E C \in StemChangeClasses : unit.conjuncts[1] = StemChangeTag(C)
     /\ unit.matches)
    => \E k \in 1..Len(ProbedVerb.properties) :
           ProbedVerb.properties[k] = unit.conjuncts[1]

(***************************************************************************)
(* Claims about the lexicon parser (SpecLex)                               *)
(***************************************************************************)
\* C8: the verb table holds the infinitives that occurred, each with exactly
\* the property list of the last statement loaded for it.
C8_LastStatementWins ==
    LET all == Flatten(history)
    IN  /\ DOMAIN verbs = {all[k].infinitive : k \in 1..Len(all)}
        /\ \A k \in 1..Len(all) :
               (\A j \in (k + 1)..Len(all) : all[j].infinitive # all[k].infinitive)
               => verbs[all[k].infinitive] = Verb(all[k].infinitive, all[k].listed)

\* two loads; a verb listed with properties and then without any has none,
\* and another verb keeps its own
C8_Witness ==
    LET all == Flatten(history)
    IN  /\ Len(history) = 2
        /\ \E j \in 1..Len(all), k \in 1..Len(all), m \in 1..Len(all) :
               /\ j < k
               /\ all[j].infinitive = all[k].infinitive
               /\ all[j].listed # <<>> /\ all[k].listed = <<>>
               /\ verbs[all[k].infinitive].properties = <<>>
               /\ all[m].infinitive # all[k].infinitive
               /\ Len(verbs[all[m].infinitive].properties) = 2

(***************************************************************************)
(* Claims about the stem definitions (SpecParse)                           *)
(***************************************************************************)
STEM_LINE == StemLine("stem", "infinitive", Deletion(ar))

CHANGED_STEM_LINE == StemLine("changed-stem", "stem", RAISE_E_IE)

RaiseE == StemAdjustment(<<"e">>, <<"i", "e">>, InFinalSyllable)

piens == <<"p", "i", "e", "n", "s">>
pienso == <<"p", "i", "e", "n", "s", "o">>
pensamos == <<"p", "e", "n", "s", "a", "m", "o", "s">>

\* the line processed last
LastLine == parse.block.stems_text[parse.pos - 1]

\* the lines that define the stem X
Defining(lines, X) == {k \in 1..Len(lines) : lines[k].matches /\ lines[k].stem_name = X}

\* stem and changed-stem are each defined once, by the two lines of the claim
TwoStems(lines) ==
    \E j \in 1..Len(lines), k \in 1..Len(lines) :
        /\ j < k
        /\ lines[j] = STEM_LINE /\ Defining(lines, "stem") = {j}
        /\ lines[k] = CHANGED_STEM_LINE /\ Defining(lines, "changed-stem") = {k}

\* C2: the chain of changed-stem is the chain of stem followed by the vowel
\* substitution, and stem resolves as before; pensar gets pienso where the
\* form names changed-stem and pensamos where it names stem.
C2_StemChangePerForm ==
    /\ (/\ parse.pos > 1
        /\ LastLine = CHANGED_STEM_LINE
        /\ "stem" \in DOMAIN parse.prev
        /\ parse.prev["stem"] = DeletionChain(ar))
       => /\ parse.stems["changed-stem"] = DeletionChain(ar) \o <<RaiseE>>
          /\ parse.stems["stem"] = parse.prev["stem"]
          /\ _compute_stem(pensar, "changed-stem", parse.stems) = piens
          /\ _compute_stem(pensar, "stem", parse.stems) = pens
    /\ (/\ parse.pc = "conjugated"
        /\ parse.call.infinitive = pensar
        /\ TwoStems(parse.block.stems_text))
       => /\ parse.call.pc = "returned"
          /\ parse.call.result[PRESENT_INDICATIVE]["1sg"] = pienso
          /\ parse.call.result[PRESENT_INDICATIVE]["1pl"] = pensamos

\* pensar conjugated with the pattern of the two stem lines
C2_Witness ==
    /\ parse.pc = "conjugated"
    /\ parse.call.infinitive = pensar
    /\ parse.block.stems_text = <<STEM_LINE, CHANGED_STEM_LINE>>
    /\ parse.call.result[PRESENT_INDICATIVE]["1sg"] = pienso

\* the line processed last names a base that is neither "infinitive" nor a
\* stem defined by an earlier line
Unresolved ==
    /\ parse.pos > 1
    /\ LastLine.matches
    /\ LastLine.base_stem # "infinitive"
    /\ LastLine.base_stem \notin DOMAIN parse.prev

\* C9 as stated: after such a line X has the empty chain, defined before or
\* not, and a form that names X resolves to the bare infinitive.
C9_Original ==
    Unresolved =>
        /\ LastLine.stem_name \in DOMAIN parse.stems
               => parse.stems[LastLine.stem_name] = <<>>
        /\ \A x \in {pensar, hablar} :
               _compute_stem(x, LastLine.stem_name, parse.stems) = x

\* C9 amended: such a line leaves the stem table as it was; X stays undefined
\* and resolves to the bare infinitive if no earlier line defined it, and
\* keeps the chain of the earlier line otherwise.
C9_LineIgnored ==
    Unresolved =>
        /\ parse.stems = parse.prev
        /\ LastLine.stem_name \notin DOMAIN parse.prev =>
               /\ LastLine.stem_name \notin DOMAIN parse.stems
               /\ \A x \in {pensar, hablar} :
                      _compute_stem(x, LastLine.stem_name, parse.stems) = x
        /\ LastLine.stem_name \in DOMAIN parse.prev =>
               parse.stems[LastLine.stem_name] = parse.prev[LastLine.stem_name]

\* a line with an unresolved base for a stem that an earlier line defined
C9_Witness ==
    /\ Unresolved
    /\ LastLine.stem_name \in DOMAIN parse.prev
    /\ _compute_stem(hablar, LastLine.stem_name, parse.stems) # hablar

====
